---- MODULE Spec2Model ----
(***************************************************************************)
(* StackDequeue<T, N> of src/src/stack_dequeue.rs as a state machine.      *)
(*                                                                         *)
(* The program state is the struct's three fields (data, start, size) and  *)
(* the const generic N.  Every public method is one action.  A slot of     *)
(* data is either a live value of T or Uninit (never written, or moved out *)
(* by assume_init_read).  Reading an Uninit slot is undefined behaviour:   *)
(* it yields any value of T.                                               *)
(*                                                                         *)
(* The remaining variables record the last call (op, arg, ret, panicked,   *)
(* touched, prev) and the reference objects the properties compare against *)
(* (abs, absRet, pushes, pops, clamped).                                   *)
(***************************************************************************)
EXTENDS Integers, Sequences, FiniteSets, TLC

\* Capacities 0..MaxN are explored.
MaxN == 3
\* Element values are 0..MaxVal.
MaxVal == 1
\* At most MaxOps push/pop calls are made on one deque.
MaxOps == 4

\* MaybeUninit::uninit(): the slot holds no live element.
Uninit == -1
\* usize::MAX, what 0usize.wrapping_sub(1) yields.  Any value >= N behaves
\* alike; this is the largest integer the checker represents.
USIZE_MAX == 2147483647

VARIABLES
    N,        \* const generic N: the capacity
    ctor,     \* "new" or "from": how the deque was constructed
    data,     \* data: [MaybeUninit<T>; N], indexed 0..N-1
    start,    \* start: usize
    size,     \* size: usize
    op,       \* name of the last method called ("init" before any call)
    arg,      \* its argument: the pushed value or the index (0 if none)
    ret,      \* its result: <<>> for None/unit, <<v>> for Some(v) / &v
    panicked, \* whether the last call panicked (assert! or unwrap)
    touched,  \* physical slots the last call read or exposed as initialized
    prev,     \* data, start, size as they were before the last call
    abs,      \* reference sequence: what a VecDeque would hold
    absRet,   \* what the reference sequence returned for the last pop
    pushes,   \* number of pushes that did not abort
    pops,     \* number of pop calls
    clamped,  \* counter: +1 per push, -1 per pop but never below 0
    which,    \* the container this run exercises: "deque" or "vec"
    phase,    \* "live", "iter" (moved into a by-value IntoIter) or "dropped"
    released, \* the slots whose element was dropped, in the order of the drops
    it,       \* the borrowing Iter / IterMut over the deque, if one is alive
    vdata,    \* StackVec::data, indexed 0..N-1
    vsize,    \* StackVec::size
    vindex,   \* stack_vec::IntoIter::index
    vstack    \* reference stack: the values pushed and not yet popped

core == <<N, ctor, data, start, size>>
ghost == <<abs, absRet, pushes, pops, clamped>>
life == <<which, phase, released>>
vec == <<vdata, vsize, vindex, vstack>>
vars == <<N, ctor, data, start, size, op, arg, ret, panicked, touched, prev,
          abs, absRet, pushes, pops, clamped,
          which, phase, released, it, vdata, vsize, vindex, vstack>>

Val == 0..MaxVal
Slots == 0..(N - 1)

Min(a, b) == IF a < b THEN a ELSE b
Max(a, b) == IF a > b THEN a ELSE b

\* The fields of self, as a value.
Snapshot == [data |-> data, start |-> start, size |-> size]

\* assume_init_read / assume_init_ref on a slot: the live value, or, on an
\* uninitialized slot (undefined behaviour), any value of T.
assume_init(cell) == IF cell = Uninit THEN Val ELSE {cell}

\* usize::checked_sub: <<x - y>> for Some(x - y), <<>> for None.
checked_sub_strict(x, y) == IF x > y THEN <<x - y>> ELSE <<>>
checked_sub(x, y) == IF x >= y THEN <<x - y>> ELSE <<>>

\* usize::wrapping_sub(1).
wrapping_sub1(x) == IF x = 0 THEN USIZE_MAX ELSE x - 1

\* fn get_idx(&self, index)
get_idx(index) ==
    LET i == start + index
    IN  IF i < N THEN i ELSE i - N

\* self.start.checked_sub(1).unwrap_or(N - 1) of push_front_mut
prev_start_unwrap_or_N == IF checked_sub(start, 1) = <<>> THEN N ELSE start - 1
prev_start == IF checked_sub(start, 1) = <<>> THEN N - 1 ELSE start - 1

\* let len1 = (N - self.start).min(self.size) of as_slices / as_mut_slices
slice_len1_no_split == size
slice_len1 == Min(N - start, size)

\* The two raw slices of as_slices / as_mut_slices, each as the sequence
\* of physical slots it covers: from_raw_parts(ptr, len) over
\* data[ptr .. ptr + len].
as_slices ==
    LET ptr1 == start
        len1 == slice_len1
        ptr2 == get_idx(start + len1)
        len2 == size - len1
    IN  << [i \in 1..len1 |-> ptr1 + i - 1],
           [i \in 1..len2 |-> ptr2 + i - 1] >>

\* Iter { a, b } driven by next() until it returns None: the slots yielded,
\* in order.  next() takes from a; when a is exhausted it swaps a and b and
\* takes from the new a.
RECURSIVE IterDrain(_, _)
IterDrain(a, b) ==
    IF a # <<>> THEN <<Head(a)>> \o IterDrain(Tail(a), b)
    ELSE IF b # <<>> THEN <<Head(b)>> \o IterDrain(Tail(b), a)
    ELSE <<>>

\* (&deq).into_iter() collected with next().
IterCollect == IterDrain(as_slices[1], as_slices[2])

Range(s) == {s[i] : i \in 1..Len(s)}

----------------------------------------------------------------------------
(* Construction *)

\* StackDequeue::new()
New ==
    /\ ctor = "new"
    /\ data = [s \in Slots |-> Uninit]
    /\ start = 0
    /\ size = 0

\* StackDequeue::from(value: [T; N])
From ==
    /\ ctor = "from"
    /\ data \in [Slots -> Val]
    /\ start = 0
    /\ size = N

\* No Iter / IterMut is alive.
NoIter ==
    [on |-> FALSE, a |-> <<>>, b |-> <<>>, front |-> <<>>, back |-> <<>>,
     last |-> <<>>]

\* StackVec::new()
VecNew ==
    /\ vdata = [s \in Slots |-> Uninit]
    /\ vsize = 0

\* StackVec::from(value: [T; N])
VecFrom ==
    /\ vdata \in [Slots -> Val]
    /\ vsize = N

\* The call record and the reference objects before any call.
NoCallYet ==
    /\ op = "init"
    /\ arg = 0
    /\ ret = <<>>
    /\ panicked = FALSE
    /\ touched = {}
    /\ absRet = <<>>
    /\ pushes = 0
    /\ pops = 0
    /\ clamped = 0
    /\ phase = "live"
    /\ released = <<>>
    /\ it = NoIter
    /\ vindex = 0

Init ==
    /\ N \in 0..MaxN
    /\ (New \/ From)
    /\ which = "deque"
    /\ VecNew
    /\ vstack = <<>>
    /\ NoCallYet
    /\ prev = Snapshot
    /\ abs = [i \in 1..size |-> data[i - 1]]

----------------------------------------------------------------------------
(* Calls that do not change the deque *)

\* What every call records about itself.
Called(name, a) ==
    /\ op' = name
    /\ arg' = a
    /\ prev' = Snapshot

\* The body of get / get_mut: (index < self.size).then(|| data[index])
GetAt(name, index) ==
    /\ Called(name, index)
    /\ IF index < size
         THEN /\ touched' = {index}
              /\ \E v \in assume_init(data[index]) : ret' = <<v>>
         ELSE /\ touched' = {}
              /\ ret' = <<>>
    /\ panicked' = FALSE
    /\ UNCHANGED <<core, ghost>>

\* get(index) and get_mut(index)
get(index) == GetAt("get", index)

\* front() and front_mut()
front == GetAt("front", 0)

\* back() and back_mut()
back == GetAt("back", wrapping_sub1(size))

\* Index::index and IndexMut::index_mut: self.get(index).unwrap()
index(i) ==
    /\ Called("index", i)
    /\ IF i < size
         THEN /\ touched' = {i}
              /\ \E v \in assume_init(data[i]) : ret' = <<v>>
              /\ panicked' = FALSE
         ELSE /\ touched' = {}
              /\ ret' = <<>>
              /\ panicked' = TRUE
    /\ UNCHANGED <<core, ghost>>

\* as_slices() and as_mut_slices(): both slices are handed to the caller.
as_slices_call ==
    /\ Called("as_slices", 0)
    /\ touched' = Range(as_slices[1]) \cup Range(as_slices[2])
    /\ ret' = <<>>
    /\ panicked' = FALSE
    /\ UNCHANGED <<core, ghost>>

\* iter() and iter_mut(), traversed front to back with next().
iter ==
    /\ Called("iter", 0)
    /\ touched' = Range(IterCollect)
    /\ ret' = <<>>
    /\ panicked' = FALSE
    /\ UNCHANGED <<core, ghost>>

\* What lies at physical slot s: data[s], or, past the end of data (a raw
\* slice that overruns the storage), memory that holds no live element.
cell_at(s) == IF s \in Slots THEN data[s] ELSE Uninit

\* The values a comparison reads through a raw slice over the slots `run`:
\* the live values, and any value of T at an uninitialized slot.
SliceValues(run) ==
    {vs \in [1..Len(run) -> Val] :
        \A i \in 1..Len(run) : vs[i] \in assume_init(cell_at(run[i]))}

\* The plain sequences a deque is compared with.
Others == UNION {[1..n -> Val] : n \in 0..N}

\* PartialEq::eq of __impl_slice_eq1: self == other
eq(other) ==
    /\ Called("eq", other)
    /\ panicked' = FALSE
    /\ IF size # Len(other)
         THEN /\ ret' = <<FALSE>>
              /\ touched' = {}
         ELSE LET sa == as_slices[1]
                  sb == as_slices[2]
                  oa == SubSeq(other, 1, Len(sa))
                  ob == SubSeq(other, Len(sa) + 1, Len(other))
              IN  /\ touched' = Range(sa) \cup Range(sb)
                  /\ \E va \in SliceValues(sa), vb \in SliceValues(sb) :
                        ret' = << (\A i \in 1..Len(sa) : va[i] = oa[i])
                                  /\ (\A i \in 1..Len(sb) : vb[i] = ob[i]) >>
    /\ UNCHANGED <<core, ghost>>

----------------------------------------------------------------------------
(* Pushes and pops *)

\* assert!(self.size < N) failed: the call unwinds, self is untouched.
CapacityPanic_after_increment(name, value) ==
    /\ Called(name, value)
    /\ ret' = <<>>
    /\ panicked' = TRUE
    /\ touched' = {}
    /\ size' = size + 1
    /\ UNCHANGED <<N, ctor, data, start, ghost>>
CapacityPanic(name, value) ==
    /\ Called(name, value)
    /\ ret' = <<>>
    /\ panicked' = TRUE
    /\ touched' = {}
    /\ UNCHANGED <<core, ghost>>

\* push_back(value) / push_back_mut(value)
push_back_mut(value) ==
    IF ~(size < N) THEN CapacityPanic("push_back", value)
    ELSE LET idx == get_idx(size)
         IN  /\ pushes + pops < MaxOps
             /\ Called("push_back", value)
             /\ size' = size + 1
             /\ data' = [data EXCEPT ![idx] = value]
             /\ ret' = <<value>>
             /\ panicked' = FALSE
             /\ touched' = {}
             /\ abs' = Append(abs, value)
             /\ pushes' = pushes + 1
             /\ clamped' = clamped + 1
             /\ UNCHANGED <<N, ctor, start, absRet, pops>>

\* push_front(value) / push_front_mut(value)
push_front_mut(value) ==
    IF ~(size < N) THEN CapacityPanic("push_front", value)
    ELSE /\ pushes + pops < MaxOps
         /\ Called("push_front", value)
         /\ size' = size + 1
         /\ start' = prev_start
         /\ data' = [data EXCEPT ![start] = value]
         /\ ret' = <<value>>
         /\ panicked' = FALSE
         /\ touched' = {}
         /\ abs' = <<value>> \o abs
         /\ pushes' = pushes + 1
         /\ clamped' = clamped + 1
         /\ UNCHANGED <<N, ctor, absRet, pops>>

\* What a pop does to the reference objects.
AbsPop(fromFront) ==
    /\ pops' = pops + 1
    /\ clamped' = Max(clamped - 1, 0)
    /\ UNCHANGED pushes
    /\ IF abs = <<>>
         THEN absRet' = <<>> /\ abs' = abs
         ELSE IF fromFront
                THEN absRet' = <<Head(abs)>> /\ abs' = Tail(abs)
                ELSE /\ absRet' = <<abs[Len(abs)]>>
                     /\ abs' = SubSeq(abs, 1, Len(abs) - 1)

\* The `?` of `self.size = self.size.checked_sub(1)?` on None: pop_front
\* returns None at once.
pop_front_none_unwrap ==
    /\ ret' = <<>>
    /\ panicked' = TRUE
    /\ touched' = {}
    /\ UNCHANGED <<data, start, size>>
pop_front_none ==
    /\ ret' = <<>>
    /\ panicked' = FALSE
    /\ touched' = {}
    /\ UNCHANGED <<data, start, size>>

\* pop_front()
pop_front ==
    /\ pushes + pops < MaxOps
    /\ Called("pop_front", 0)
    /\ AbsPop(TRUE)
    /\ UNCHANGED <<N, ctor>>
    /\ IF checked_sub(size, 1) = <<>>
         THEN pop_front_none
         ELSE /\ panicked' = FALSE
              /\ size' = checked_sub(size, 1)[1]
              /\ start' = get_idx(1)
              /\ touched' = {start}
              /\ \E v \in assume_init(data[start]) : ret' = <<v>>
              /\ data' = [data EXCEPT ![start] = Uninit]

\* pop_back()
pop_back ==
    /\ pushes + pops < MaxOps
    /\ Called("pop_back", 0)
    /\ panicked' = FALSE
    /\ AbsPop(FALSE)
    /\ UNCHANGED <<N, ctor, start>>
    /\ IF checked_sub(size, 1) = <<>>
         THEN /\ ret' = <<>>
              /\ touched' = {}
              /\ UNCHANGED <<data, size>>
         ELSE LET idx == get_idx(checked_sub(size, 1)[1])
              IN  /\ size' = checked_sub(size, 1)[1]
                  /\ touched' = {idx}
                  /\ \E v \in assume_init(data[idx]) : ret' = <<v>>
                  /\ data' = [data EXCEPT ![idx] = Uninit]

----------------------------------------------------------------------------
(* Moving and dropping the deque *)

\* What a call on the deque leaves alone: no container is dropped or moved,
\* no iterator is alive, the StackVec is not used.
DequeOnly == which = "deque" /\ UNCHANGED <<life, it, vec>>

\* What the lifecycle steps leave alone.
NoCall == UNCHANGED <<core, ghost, ret, touched, it, vec, which>>

\* IntoIterator for StackDequeue: into_iter(self) wraps the deque.
deque_into_iter ==
    /\ which = "deque" /\ phase = "live"
    /\ Called("into_iter", 0)
    /\ panicked' = FALSE
    /\ phase' = "iter"
    /\ UNCHANGED released
    /\ NoCall

\* IntoIter::next: self.0.pop_front()
IntoIter_next ==
    /\ which = "deque" /\ phase = "iter"
    /\ pop_front
    /\ DequeOnly

\* IntoIter::next_back: self.0.pop_back()
IntoIter_next_back ==
    /\ which = "deque" /\ phase = "iter"
    /\ pop_back
    /\ DequeOnly

\* The StackDequeue, or the IntoIter that owns it, goes out of scope.
\* StackDequeue implements no Drop and IntoIter neither: only the fields'
\* own drops run, and dropping [MaybeUninit<T>; N] drops no element.
deque_drop ==
    /\ which = "deque" /\ phase \in {"live", "iter"}
    /\ Called("drop", 0)
    /\ panicked' = FALSE
    /\ phase' = "dropped"
    /\ released' = released
    /\ NoCall

----------------------------------------------------------------------------

----------------------------------------------------------------------------
(* Iter / IterMut, one call at a time *)

(* it.a and it.b are the two slice iterators, each as the slots it has yet *)
(* to yield; it.front and it.back are the slots next() and next_back()     *)
(* have returned so far; it.last is <<s>> when the iterator this one       *)
(* replaced was run to its end by next() alone and yielded s.  next() and  *)
(* next_back() return a reference: ret holds the slot referred to.         *)

DropLast(s) == SubSeq(s, 1, Len(s) - 1)
Reverse(s) == [i \in 1..Len(s) |-> s[Len(s) + 1 - i]]

\* mem::swap(&mut self.a, &mut self.b): the new (a, b)
swap_nothing(x, y) == <<x, y>>
swap(x, y) == <<y, x>>

\* size_hint / ExactSizeIterator::len
Iter_size_hint == Len(it.a) + Len(it.b)

\* What a call on the iterator leaves alone: the deque is borrowed.
IterOnly ==
    /\ which = "deque"
    /\ it.on
    /\ panicked' = FALSE
    /\ UNCHANGED <<core, ghost, life, vec>>

\* IntoIterator for &StackDequeue / &mut StackDequeue; iter(), iter_mut()
into_iter_ref ==
    /\ which = "deque" /\ phase = "live"
    /\ Called("into_iter_ref", 0)
    /\ it' = [on |-> TRUE, a |-> as_slices[1], b |-> as_slices[2],
              front |-> <<>>, back |-> <<>>,
              last |-> IF it.on /\ it.back = <<>> /\ Iter_size_hint = 0
                         THEN <<it.front>> ELSE <<>>]
    /\ touched' = {}
    /\ ret' = <<>>
    /\ panicked' = FALSE
    /\ UNCHANGED <<core, ghost, life, vec>>

\* Iter::next / IterMut::next
Iter_next ==
    /\ IterOnly
    /\ Called("next", 0)
    /\ IF it.a # <<>>
         THEN /\ it' = [it EXCEPT !.a = Tail(it.a),
                                  !.front = Append(@, Head(it.a))]
              /\ ret' = <<Head(it.a)>>
              /\ touched' = {Head(it.a)}
         ELSE LET a2 == swap(it.a, it.b)[1]
                  b2 == swap(it.a, it.b)[2]
              IN  IF a2 # <<>>
                    THEN /\ it' = [it EXCEPT !.a = Tail(a2), !.b = b2,
                                             !.front = Append(@, Head(a2))]
                         /\ ret' = <<Head(a2)>>
                         /\ touched' = {Head(a2)}
                    ELSE /\ it' = [it EXCEPT !.a = a2, !.b = b2]
                         /\ ret' = <<>>
                         /\ touched' = {}

\* Iter::next_back / IterMut::next_back
Iter_next_back ==
    /\ IterOnly
    /\ Called("next_back", 0)
    /\ IF it.b # <<>>
         THEN /\ it' = [it EXCEPT !.b = DropLast(it.b),
                                  !.back = Append(@, it.b[Len(it.b)])]
              /\ ret' = <<it.b[Len(it.b)]>>
              /\ touched' = {it.b[Len(it.b)]}
         ELSE LET a2 == swap(it.a, it.b)[1]
                  b2 == swap(it.a, it.b)[2]
              IN  IF b2 # <<>>
                    THEN /\ it' = [it EXCEPT !.a = a2, !.b = DropLast(b2),
                                             !.back = Append(@, b2[Len(b2)])]
                         /\ ret' = <<b2[Len(b2)]>>
                         /\ touched' = {b2[Len(b2)]}
                    ELSE /\ it' = [it EXCEPT !.a = a2, !.b = b2]
                         /\ ret' = <<>>
                         /\ touched' = {}

\* The iterator goes out of scope: the borrow of the deque ends.
Iter_drop ==
    /\ IterOnly
    /\ Called("iter_end", 0)
    /\ it' = NoIter
    /\ ret' = <<>>
    /\ touched' = {}

----------------------------------------------------------------------------
(* StackVec<T, N> of src/src/stack_vec.rs *)

\* The fields of the StackVec (and of the IntoIter around it), as a value.
VecSnapshot == [data |-> vdata, size |-> vsize, index |-> vindex]

\* The elements of the StackVec, slot 0 first.
VecContents == [i \in 1..vsize |-> vdata[i - 1]]

\* What a call on the StackVec records about itself and leaves alone.
VecCalled(name, a) ==
    /\ which = "vec"
    /\ op' = name
    /\ arg' = a
    /\ prev' = VecSnapshot
    /\ UNCHANGED <<core, abs, pushes, pops, clamped, it, which>>

\* assert!(self.size < N) of push failed, or push_unchecked's debug_assert!
\* (debug build) or the bounds check of self.data[self.size] (release
\* build): the call unwinds before anything is written.
VecPanic(name, value) ==
    /\ VecCalled(name, value)
    /\ ret' = <<>>
    /\ panicked' = TRUE
    /\ touched' = {}
    /\ UNCHANGED <<vec, absRet, phase, released>>

\* self.data[self.size].write(value); self.size += 1
VecStore(name, value) ==
    /\ VecCalled(name, value)
    /\ vdata' = [vdata EXCEPT ![vsize] = value]
    /\ vsize' = vsize + 1
    /\ vstack' = Append(vstack, value)
    /\ ret' = <<>>
    /\ panicked' = FALSE
    /\ touched' = {}
    /\ UNCHANGED <<vindex, absRet, phase, released>>

\* StackVec::push
push(value) ==
    /\ phase = "live"
    /\ IF ~(vsize < N) THEN VecPanic("push", value)
       ELSE VecStore("push", value)

\* StackVec::push_unchecked
push_unchecked(value) ==
    /\ phase = "live"
    /\ IF ~(vsize < N) THEN VecPanic("push_unchecked", value)
       ELSE VecStore("push_unchecked", value)

\* The slot pop reads: self.data[self.size] after the decrement.
pop_slot_below == Max(vsize - 2, 0)
pop_slot == checked_sub(vsize, 1)[1]

\* StackVec::pop
pop ==
    /\ phase = "live"
    /\ VecCalled("pop", 0)
    /\ panicked' = FALSE
    /\ UNCHANGED <<vindex, phase, released>>
    /\ IF checked_sub(vsize, 1) = <<>>
         THEN /\ ret' = <<>>
              /\ touched' = {}
              /\ absRet' = <<>>
              /\ UNCHANGED <<vdata, vsize, vstack>>
         ELSE /\ vsize' = checked_sub(vsize, 1)[1]
              /\ touched' = {pop_slot}
              /\ \E v \in assume_init(vdata[pop_slot]) : ret' = <<v>>
              /\ vdata' = [vdata EXCEPT ![pop_slot] = Uninit]
              /\ absRet' = <<vstack[Len(vstack)]>>
              /\ vstack' = SubSeq(vstack, 1, Len(vstack) - 1)

\* Deref / DerefMut: slice::from_raw_parts(self.data.as_ptr(), self.size)
deref ==
    /\ phase = "live"
    /\ VecCalled("deref", 0)
    /\ touched' = {i - 1 : i \in 1..vsize}
    /\ ret' = <<>>
    /\ panicked' = FALSE
    /\ UNCHANGED <<vec, absRet, phase, released>>

\* The slots Drop for StackVec drops: self.data[..self.size]
StackVec_drop_all_slots == [i \in 1..N |-> i - 1]
StackVec_drop_slots == [i \in 1..vsize |-> i - 1]

\* Drop for StackVec
StackVec_drop ==
    /\ phase = "live"
    /\ VecCalled("drop", 0)
    /\ released' = released \o StackVec_drop_slots
    /\ phase' = "dropped"
    /\ touched' = {}
    /\ ret' = <<>>
    /\ panicked' = FALSE
    /\ UNCHANGED <<vec, absRet>>

\* IntoIterator for StackVec: IntoIter { index: 0, vec: self }
vec_into_iter ==
    /\ phase = "live"
    /\ VecCalled("into_iter", 0)
    /\ vindex' = 0
    /\ phase' = "iter"
    /\ touched' = {}
    /\ ret' = <<>>
    /\ panicked' = FALSE
    /\ UNCHANGED <<vdata, vsize, vstack, absRet, released>>

\* stack_vec::IntoIter::next
VecIntoIter_next ==
    /\ phase = "iter"
    /\ VecCalled("next", 0)
    /\ panicked' = FALSE
    /\ UNCHANGED <<vsize, vstack, absRet, phase, released>>
    /\ IF vindex < vsize
         THEN /\ vindex' = vindex + 1
              /\ touched' = {vindex}
              /\ \E v \in assume_init(vdata[vindex]) : ret' = <<v>>
              /\ vdata' = [vdata EXCEPT ![vindex] = Uninit]
         ELSE /\ ret' = <<>>
              /\ touched' = {}
              /\ UNCHANGED <<vindex, vdata>>

\* stack_vec::IntoIter::size_hint: <<lower bound, upper bound>>
VecIntoIter_size_hint == <<vsize - vindex, vsize>>

\* Drop for stack_vec::IntoIter: len = self.vec.data.len(); self.vec.size =
\* 0; every slot of data[self.index..len] is dropped; then the field vec is
\* dropped with size 0, which drops nothing more.
VecIntoIter_drop ==
    /\ phase = "iter"
    /\ VecCalled("iter_drop", 0)
    /\ LET len == N
       IN  released' = released \o [i \in 1..(len - vindex) |-> vindex + i - 1]
    /\ vsize' = 0
    /\ phase' = "dropped"
    /\ touched' = {}
    /\ ret' = <<>>
    /\ panicked' = FALSE
    /\ UNCHANGED <<vdata, vindex, vstack, absRet>>

\* A StackVec from new() or from(array); the deque is not used.
InitVec ==
    /\ N \in 0..MaxN
    /\ New
    /\ which = "vec"
    /\ (VecNew \/ VecFrom)
    /\ vstack = VecContents
    /\ NoCallYet
    /\ prev = VecSnapshot
    /\ abs = <<>>

NextVec ==
    \/ \E v \in Val : push(v)
    \/ \E v \in Val : push_unchecked(v)
    \/ pop
    \/ deref
    \/ StackVec_drop
    \/ vec_into_iter
    \/ VecIntoIter_next
    \/ VecIntoIter_drop

SpecVec == InitVec /\ [][NextVec]_vars

----------------------------------------------------------------------------

Next ==
    \/ (\E i \in 0..N : get(i)) /\ DequeOnly
    \/ front /\ DequeOnly
    \/ back /\ DequeOnly
    \/ (\E i \in 0..N : index(i)) /\ DequeOnly
    \/ as_slices_call /\ DequeOnly
    \/ iter /\ DequeOnly
    \/ (\E v \in Val : push_back_mut(v)) /\ DequeOnly
    \/ (\E v \in Val : push_front_mut(v)) /\ DequeOnly
    \/ pop_front /\ DequeOnly
    \/ pop_back /\ DequeOnly

Spec == Init /\ [][Next]_vars

\* Pushes, pops and comparisons with plain sequences.
NextEq ==
    \/ (\E v \in Val : push_back_mut(v)) /\ DequeOnly
    \/ (\E v \in Val : push_front_mut(v)) /\ DequeOnly
    \/ pop_front /\ DequeOnly
    \/ pop_back /\ DequeOnly
    \/ (\E other \in Others : eq(other)) /\ DequeOnly

SpecEq == Init /\ [][NextEq]_vars

\* Pushes and pops on a live deque, consumption through the by-value
\* IntoIter, and the final drop.
NextDrop ==
    \/ (\E v \in Val : push_back_mut(v)) /\ phase = "live" /\ DequeOnly
    \/ (\E v \in Val : push_front_mut(v)) /\ phase = "live" /\ DequeOnly
    \/ pop_front /\ phase = "live" /\ DequeOnly
    \/ pop_back /\ phase = "live" /\ DequeOnly
    \/ deque_into_iter
    \/ IntoIter_next
    \/ IntoIter_next_back
    \/ deque_drop

SpecDrop == Init /\ [][NextDrop]_vars

\* Pushes and pops on an unborrowed deque, and iterators over it driven by
\* any interleaving of next() and next_back().
NextIter ==
    \/ (\E v \in Val : push_back_mut(v)) /\ ~it.on /\ DequeOnly
    \/ (\E v \in Val : push_front_mut(v)) /\ ~it.on /\ DequeOnly
    \/ pop_front /\ ~it.on /\ DequeOnly
    \/ pop_back /\ ~it.on /\ DequeOnly
    \/ into_iter_ref
    \/ Iter_next
    \/ Iter_next_back
    \/ Iter_drop

SpecIter == Init /\ [][NextIter]_vars

\* Either container, exercised on its own.
InitAll == Init \/ InitVec

NextAll == Next \/ NextVec

SpecAll == InitAll /\ [][NextAll]_vars

----------------------------------------------------------------------------
(* The logical contents *)

\* Physical slot of logical element i (0-based): (start + i) mod N.
LogicalSlot(i) == (start + i) % N

\* The physical slots of the logical elements, front to back.
LogicalSlots == [i \in 1..size |-> LogicalSlot(i - 1)]

\* The logical contents of a deque with fields d, st, sz, front to back.
LogicalOf(d, st, sz) == [i \in 1..sz |-> d[(st + i - 1) % N]]

Logical == LogicalOf(data, start, size)

\* The slots that hold a live element.
Initialized == {s \in Slots : data[s] # Uninit}

PopOps == {"pop_front", "pop_back"}
ReadOps == {"get", "front", "back", "index", "as_slices", "iter"} \cup PopOps

----------------------------------------------------------------------------
(* Properties *)

\* C1: a deque built by new() and driven by push_back, push_front,
\* pop_front, pop_back (no push at size = N takes effect) always holds, at
\* the slots (start + i) mod N, i < size, exactly the reference sequence
\* (push_back appends, push_front prepends, pops remove at their end), and
\* every pop returns what the reference sequence returns.
C1_RefinesSequence ==
    ctor = "new" =>
        /\ Logical = abs
        /\ (op \in PopOps => ret = absRet)

\* C2: in every reachable state the initialized slots are exactly
\* {(start + i) mod N : 0 <= i < size}.
C2_InitializedSlots ==
    Initialized = {LogicalSlot(i) : i \in 0..(size - 1)}

\* C3: no call reads, exposes or moves out of an uninitialized slot, and
\* every slot it touches lies inside the N-slot storage.
C3_NoUninitAccess ==
    op \in ReadOps =>
        \A s \in touched : s \in DOMAIN prev.data /\ prev.data[s] # Uninit

\* C4: with N > 0, every reachable state has 0 <= size <= N and
\* 0 <= start < N, whatever call led to it (a pop on an empty deque and a
\* push that panics at capacity included).
C4_Bounds ==
    N > 0 => /\ 0 <= size /\ size <= N
             /\ 0 <= start /\ start < N

\* C4 witness: push_front on a deque whose start was 0 wrapped start to
\* N - 1.
C4_Witness ==
    /\ N > 1
    /\ op = "push_front" /\ ~panicked
    /\ prev.start = 0 /\ start = N - 1

\* C5 as stated: from new(), size = max(pushes - pops, 0) and size is the
\* number of elements a full traversal with iter() yields.
C5_SizeIsPushesMinusPops ==
    ctor = "new" =>
        /\ size = Max(pushes - pops, 0)
        /\ size = Len(IterCollect)

\* C5 amended: from new(), size equals the counter that each push raises by
\* one and each pop lowers by one unless it is already 0 (a pop on an empty
\* deque is not counted), and size is the number of elements a full
\* traversal with iter() yields.
C5_SizeIsClampedCount ==
    ctor = "new" =>
        /\ size = clamped
        /\ size = Len(IterCollect)

\* C5 witness: a deque from new() that was popped while empty, then
\* pushed, then traversed.
C5_Witness ==
    /\ ctor = "new"
    /\ op = "iter"
    /\ pops >= pushes
    /\ size > 0

\* C6: the two runs of as_slices, concatenated, are the logical sequence:
\* run A is storage[start .. min(start + size, N)] and run B is
\* storage[0 .. size - len(A)].
C6_SlicesAreLogical ==
    LET lenA == Min(start + size, N) - start
    IN  /\ as_slices[1] \o as_slices[2] = LogicalSlots
        /\ as_slices[1] = [i \in 1..lenA |-> start + i - 1]
        /\ as_slices[2] = [i \in 1..(size - lenA) |-> i - 1]

\* C7: len(A) + len(B) = size, and run B is non-empty iff start + size > N.
C7_SliceLengths ==
    /\ Len(as_slices[1]) + Len(as_slices[2]) = size
    /\ (Len(as_slices[2]) > 0 <=> start + size > N)

\* C7 witness: as_slices was called on a deque whose contents wrap.
C7_Witness ==
    /\ op = "as_slices"
    /\ start > 0
    /\ start + size > N
    /\ Len(as_slices[2]) > 0

\* C8: get(i) / get_mut(i) return logical element i when i < size and None
\* otherwise; deq[i] returns the same element when i < size and panics
\* otherwise.
C8_GetLogical ==
    /\ op = "get" =>
          /\ touched = (IF arg < size THEN {LogicalSlot(arg)} ELSE {})
          /\ ret = (IF arg < size THEN <<data[LogicalSlot(arg)]>> ELSE <<>>)
    /\ op = "index" =>
          IF arg < size
            THEN /\ ~panicked
                 /\ touched = {LogicalSlot(arg)}
                 /\ ret = <<data[LogicalSlot(arg)]>>
            ELSE panicked

\* C9: front() right after push_front(v) returns v, back() right after
\* push_back(v) returns v, and front() / back() on an empty deque return
\* None.
C9_FrontBackAfterPush ==
    [][ /\ (op = "push_front" /\ ~panicked /\ op' = "front") => ret' = <<arg>>
        /\ (op = "push_back" /\ ~panicked /\ op' = "back") => ret' = <<arg>>
        /\ (op' \in {"front", "back"} /\ size' = 0) => ret' = <<>>
      ]_vars

\* C10: push_back(v) then pop_back() returns v and restores start, size
\* and the logical contents; so does push_front(v) then pop_front().
C10_PushPopInverse ==
    [][ ( \/ (op = "push_back" /\ ~panicked /\ op' = "pop_back")
          \/ (op = "push_front" /\ ~panicked /\ op' = "pop_front") )
        => /\ ret' = <<arg>>
           /\ start' = prev.start
           /\ size' = prev.size
           /\ Logical' = LogicalOf(prev.data, prev.start, prev.size)
      ]_vars

\* C11: deq == other is true exactly when the lengths match and logical
\* element i equals other[i] for every i, whatever start is; sequences of
\* another length are never equal.
C11_EqIsLogicalEq ==
    op = "eq" =>
        ret = << /\ Len(arg) = size
                 /\ \A i \in 1..size : Logical[i] = arg[i] >>

\* C12: once the deque (or the IntoIter holding it) is dropped, each of the
\* size elements it still held has been released exactly once, and nothing
\* else has: no popped element, no uninitialized slot.
C12_DropReleasesHeld ==
    (which = "deque" /\ phase = "dropped") =>
        /\ Len(released) = size
        /\ Range(released) = Range(LogicalSlots)

\* C18: push_front(v) with size < N sets start to (start - 1) mod N, stores
\* v in the slot at the new start, raises size by one and leaves every
\* other slot as it was.
C18_PushFrontFrame ==
    (op = "push_front" /\ ~panicked) =>
        /\ start = (prev.start - 1) % N
        /\ size = prev.size + 1
        /\ data[start] = arg
        /\ \A s \in Slots \ {start} : data[s] = prev.data[s]

\* The slots of the StackVec that hold a live element.
VecInitialized == {s \in Slots : vdata[s] # Uninit}

\* The slots k, k + 1, ..., n - 1 in order.
SlotsFrom(k, n) == [i \in 1..(n - k) |-> k + i - 1]

\* C13: when the by-value iterator of a StackVec is dropped after yielding
\* k elements, exactly the slots [k, size) are released, once each: no
\* yielded element again and no slot of [size, N).
C13_VecIterDropReleasesRest ==
    (which = "vec" /\ op = "iter_drop") =>
        released = SlotsFrom(prev.index, prev.size)

\* C14: pop_front and pop_back on an empty StackDequeue return None without
\* panicking and leave start, size and every slot as they were; pop on an
\* empty StackVec returns None and leaves size at 0.
C14_PopOnEmpty ==
    /\ (which = "deque" /\ op \in PopOps /\ prev.size = 0) =>
          /\ ret = <<>>
          /\ ~panicked
          /\ Snapshot = prev
    /\ (which = "vec" /\ op = "pop" /\ prev.size = 0) =>
          /\ ret = <<>>
          /\ ~panicked
          /\ vsize = 0
          /\ VecSnapshot = prev

\* C14 witness: pop_front on a deque that was filled and drained, so that
\* start is not 0.
C14_Witness ==
    /\ which = "deque"
    /\ ctor = "new"
    /\ op = "pop_front"
    /\ prev.size = 0
    /\ start # 0
    /\ pushes > 0

\* C15: push_back and push_front at size = N panic and leave start, size
\* and every slot as they were; so does StackVec::push at size = N.
C15_PushAtCapacity ==
    /\ (which = "deque" /\ op \in {"push_back", "push_front"} /\ prev.size = N) =>
          /\ panicked
          /\ Snapshot = prev
    /\ (which = "vec" /\ op = "push" /\ prev.size = N) =>
          /\ panicked
          /\ VecSnapshot = prev

\* C15 witness: push_front panicked on a full deque whose contents wrap.
C15_Witness ==
    /\ which = "deque"
    /\ N > 1
    /\ op = "push_front"
    /\ panicked
    /\ size = N
    /\ start # 0

\* C16: the StackVec holds, slot 0 first, exactly the values pushed and not
\* yet popped, and pop returns the most recently pushed of them (None when
\* there is none): after filling it to capacity, pops return the values in
\* reverse push order and then None.
C16_VecIsLifo ==
    (which = "vec" /\ phase = "live") =>
        /\ VecContents = vstack
        /\ op = "pop" => ret = absRet

\* C16 witness: the last of N > 1 pops that emptied a StackVec filled by
\* pushes of different values.
C16_Witness ==
    /\ which = "vec"
    /\ N > 1
    /\ op = "pop"
    /\ prev.size = 1
    /\ vsize = 0
    /\ ret = <<prev.data[0]>>
    /\ absRet = ret

\* C17: a StackVec reached by push, push_unchecked and pop has
\* 0 <= size <= N, slots [0, size) live and slots [size, N) uninitialized;
\* deref exposes exactly storage[0..size]; dropping it releases exactly the
\* elements of that prefix, once each.
C17_VecPrefix ==
    which = "vec" =>
        /\ 0 <= vsize /\ vsize <= N
        /\ phase = "live" => VecInitialized = {i - 1 : i \in 1..vsize}
        /\ op = "deref" => touched = {i - 1 : i \in 1..vsize}
        /\ op = "drop" => released = SlotsFrom(0, prev.size)

\* C17 witness: a StackVec that is neither empty nor full was dropped.
C17_Witness ==
    /\ which = "vec"
    /\ op = "drop"
    /\ 0 < vsize /\ vsize < N
    /\ released = SlotsFrom(0, vsize)

\* The slots of run A followed by those of run B, as the iterator is built.
IterRuns == as_slices[1] \o as_slices[2]

\* An iterator that has just answered None to the call named.
IterEnded(call) == it.on /\ op = call /\ ret = <<>>

(* C19: driven by next() alone, iter() / iter_mut() yields exactly size     *)
(* elements, run A then run B, which is the logical order front to back,    *)
(* and then None; driven by next_back() alone it yields the logical order   *)
(* back to front; a fresh iter() after a full traversal yields the same     *)
(* sequence again.                                                          *)
C19_SingleEndedTraversal ==
    /\ (IterEnded("next") /\ it.back = <<>>) =>
          /\ Len(it.front) = size
          /\ it.front = IterRuns
          /\ it.front = LogicalSlots
          /\ it.last # <<>> => it.front = it.last[1]
    /\ (IterEnded("next_back") /\ it.front = <<>>) =>
          /\ Len(it.back) = size
          /\ it.back = Reverse(IterRuns)
          /\ it.back = Reverse(LogicalSlots)

\* The state part of C20.
IterAccounting ==
    it.on =>
        /\ it.front \o it.a \o it.b \o Reverse(it.back) = IterRuns
        /\ Iter_size_hint = Len(IterRuns) - Len(it.front) - Len(it.back)
        /\ op \in {"next", "next_back"} /\ ret = <<>> => Iter_size_hint = 0
        /\ op = "next" /\ ret # <<>> => ret = <<it.front[Len(it.front)]>>
        /\ op = "next_back" /\ ret # <<>> => ret = <<it.back[Len(it.back)]>>

\* The step part of C20: a call on an iterator with nothing left answers
\* None, and a call on one with something left answers an element.
IterStep ==
    (it.on /\ it'.on /\ op' \in {"next", "next_back"}) =>
        /\ (Iter_size_hint = 0) <=> (ret' = <<>>)
        /\ ret' # <<>> => Iter_size_hint' = Iter_size_hint - 1

(* C20: under any interleaving of next() and next_back() on an Iter or      *)
(* IterMut over runs A and B, every element of A followed by B is yielded   *)
(* exactly once, those returned by next() front to back and those returned  *)
(* by next_back() back to front with no overlap; size_hint is always the    *)
(* number of elements not yet yielded; once that number is 0 every further  *)
(* call returns None.                                                       *)
C20_AnyInterleaving == [](IterAccounting) /\ [][IterStep]_vars

\* Both ends have yielded, the runs were swapped on the way, and the
\* exhausted iterator has answered None.
C20_Witness ==
    /\ it.on
    /\ as_slices[1] # <<>> /\ as_slices[2] # <<>>
    /\ Len(it.front) > Len(as_slices[1])
    /\ it.back # <<>>
    /\ Iter_size_hint = 0
    /\ op = "next" /\ ret = <<>>

\* The order part of C21: each next() hands out the slot at index and moves
\* index up by one, until index reaches size; from then on it answers None.
VecIterInOrder ==
    /\ (which = "vec" /\ phase = "iter") => vindex <= vsize
    /\ (which = "vec" /\ op = "next") =>
          IF prev.index < prev.size
            THEN /\ prev.data[prev.index] # Uninit
                 /\ ret = <<prev.data[prev.index]>>
                 /\ touched = {prev.index}
                 /\ vindex = prev.index + 1
            ELSE /\ ret = <<>>
                 /\ vindex = prev.index

(* C21: the by-value iterator of a StackVec yields the elements of slots    *)
(* 0, 1, ..., size - 1 in that order, each exactly once, then None, and at  *)
(* every point of the iteration size_hint() reports lower bound = upper     *)
(* bound = size - index, the number of elements not yet yielded.            *)
C21_VecIterExactSize ==
    /\ VecIterInOrder
    /\ (which = "vec" /\ phase = "iter") =>
          /\ VecIntoIter_size_hint[1] = vsize - vindex
          /\ VecIntoIter_size_hint[2] = vsize - vindex

====
